---- MODULE Spec2Model ----
(***************************************************************************)
(* Model of the MST programs final.py (DSU, Kruskal, Prim) and index.py    *)
(* (DSU, comparator-sorted Kruskal).  Python lists are modelled as         *)
(* functions over 0..n-1 (DSU arrays) or as sequences (edge lists).        *)
(***************************************************************************)
EXTENDS Integers, Sequences, FiniteSets

VARIABLES
    n,                \* argument of DSU(n)
    parent,           \* DSU.parent
    rank,             \* DSU.rank
    hist,             \* last DSU call: name, arguments, result, state before it
    num_vertices,     \* caller's vertex count
    edge_list,        \* caller's edge list, a sequence of <<u, v, weight>>
    adj_list,         \* caller's adjacency list, vertex -> sequence of <<neighbor, weight>>
    pc,               \* position of the running script
    sorted_edge_list, \* local of kruskals_mst
    pos,              \* index of the for loop over sorted_edge_list
    mst_cost,         \* local of the running engine
    mst_edges,        \* local of the running engine (final.py)
    mst_edge_count,   \* local of kruskals_mst (index.py)
    selected,         \* edges on which index.py's kruskals_mst called dsu.union
    warned,           \* index.py's kruskals_mst printed its warning
    min_heap,         \* local of prims_mst
    visited,          \* local of prims_mst
    popped,           \* weight, u, v of the last heappop in prims_mst
    kruskal_result,   \* value returned by final.py's kruskals_mst
    index_result,     \* value returned by index.py's kruskals_mst
    prim_result       \* value returned by final.py's prims_mst

dsuVars == <<n, parent, rank, hist>>
graphVars == <<num_vertices, edge_list, adj_list>>
engineVars == <<pc, sorted_edge_list, pos, mst_cost, mst_edges, mst_edge_count,
                selected, warned, min_heap, visited, popped,
                kruskal_result, index_result, prim_result>>
vars == <<n, parent, rank, hist, num_vertices, edge_list, adj_list,
          pc, sorted_edge_list, pos, mst_cost, mst_edges, mst_edge_count,
          selected, warned, min_heap, visited, popped,
          kruskal_result, index_result, prim_result>>

\* ---------------------------------------------------------------- bounds
MaxN == 4        \* largest DSU size explored by arbitrary union/find calls
MaxV == 2        \* largest vertex count of the enumerated graphs
MaxE == 2        \* longest enumerated edge list
MaxW == 2        \* largest enumerated weight (weights are 0..MaxW)
MaxCE == 3       \* longest enumerated edge list of the two-component graphs

\* ------------------------------------------------------------------- DSU
\* DSU.__init__: list(range(n)) and [1] * n, both empty when n <= 0.
DSUParentInit(k) == [i \in 0..(k - 1) |-> i]
DSURankInit(k) == [i \in 0..(k - 1) |-> 1]

\* A find that rewrites parent[i] but returns the parent read before the call.
RECURSIVE findStaleReturn(_, _)
findStaleReturn(p, i) ==
    IF p[i] = i THEN [root |-> i, parent |-> p]
    ELSE LET r == findStaleReturn(p, p[i])
         IN  [root |-> p[i], parent |-> [r.parent EXCEPT ![i] = r.root]]

\* DSU.find with path compression: the root and the parent array afterwards.
RECURSIVE find(_, _)
find(p, i) ==
    IF p[i] = i THEN [root |-> i, parent |-> p]
    ELSE LET r == find(p, p[i])
         IN  [root |-> r.root, parent |-> [r.parent EXCEPT ![i] = r.root]]

\* A union that forgets the link when the two ranks are equal.
unionTieNoLink(p, r, x, y) ==
    LET fx == find(p, x)
        fy == find(fx.parent, y)
        root_x == fx.root
        root_y == fy.root
        q == fy.parent
    IN  IF root_x # root_y
        THEN IF r[root_x] < r[root_y]
             THEN [parent |-> [q EXCEPT ![root_x] = root_y], rank |-> r, ret |-> TRUE]
             ELSE IF r[root_x] > r[root_y]
             THEN [parent |-> [q EXCEPT ![root_y] = root_x], rank |-> r, ret |-> TRUE]
             ELSE [parent |-> q, rank |-> [r EXCEPT ![root_x] = @ + 1], ret |-> TRUE]
        ELSE [parent |-> q, rank |-> r, ret |-> FALSE]

\* A union without the root_x != root_y test.
unionNoTest(p, r, x, y) ==
    LET fx == find(p, x)
        fy == find(fx.parent, y)
        root_x == fx.root
        root_y == fy.root
        q == fy.parent
    IN  IF r[root_x] < r[root_y]
        THEN [parent |-> [q EXCEPT ![root_x] = root_y], rank |-> r, ret |-> root_x # root_y]
        ELSE IF r[root_x] > r[root_y]
        THEN [parent |-> [q EXCEPT ![root_y] = root_x], rank |-> r, ret |-> root_x # root_y]
        ELSE [parent |-> [q EXCEPT ![root_y] = root_x],
              rank |-> [r EXCEPT ![root_x] = @ + 1], ret |-> root_x # root_y]

\* DSU.union: parent, rank and the returned boolean.
union(p, r, x, y) ==
    LET fx == find(p, x)
        fy == find(fx.parent, y)
        root_x == fx.root
        root_y == fy.root
        q == fy.parent
    IN  IF root_x # root_y
        THEN IF r[root_x] < r[root_y]
             THEN [parent |-> [q EXCEPT ![root_x] = root_y], rank |-> r, ret |-> TRUE]
             ELSE IF r[root_x] > r[root_y]
             THEN [parent |-> [q EXCEPT ![root_y] = root_x], rank |-> r, ret |-> TRUE]
             ELSE [parent |-> [q EXCEPT ![root_y] = root_x],
                   rank |-> [r EXCEPT ![root_x] = @ + 1], ret |-> TRUE]
        ELSE [parent |-> q, rank |-> r, ret |-> FALSE]

\* The record kept of a DSU call.
Call(op, x, y, root, merged, p0, r0, px, proot) ==
    [op |-> op, x |-> x, y |-> y, root |-> root, merged |-> merged,
     raised |-> "none", parent0 |-> p0, rank0 |-> r0,
     prev_x |-> px, prev_root |-> proot]

\* The script calls dsu.find(i) with 0 <= i < n.
Find(i) ==
    LET f == find(parent, i)
    IN  /\ pc = "dsu"
        /\ parent' = f.parent
        /\ hist' = Call("find", i, -1, f.root, FALSE, parent, rank,
                        IF hist.op = "find" THEN hist.x ELSE -1,
                        IF hist.op = "find" THEN hist.root ELSE -1)
        /\ UNCHANGED <<n, rank, graphVars, engineVars>>

\* The script calls dsu.union(x, y) with 0 <= x, y < n.
Union(x, y) ==
    LET u == union(parent, rank, x, y)
    IN  /\ pc = "dsu"
        /\ parent' = u.parent
        /\ rank' = u.rank
        /\ hist' = Call("union", x, y, -1, u.ret, parent, rank, -1, -1)
        /\ UNCHANGED <<n, graphVars, engineVars>>

NoGraph ==
    /\ num_vertices = 0
    /\ edge_list = <<>>
    /\ adj_list = <<>>

EngineIdle(at) ==
    /\ pc = at
    /\ sorted_edge_list = <<>>
    /\ pos = 0
    /\ mst_cost = 0
    /\ mst_edges = <<>>
    /\ mst_edge_count = 0
    /\ selected = <<>>
    /\ warned = FALSE
    /\ min_heap = <<>>
    /\ visited = {}
    /\ popped = <<>>
    /\ kruskal_result = <<>>
    /\ index_result = <<>>
    /\ prim_result = <<>>

\* A DSU right after DSU(n), n also negative.
InitDSU ==
    /\ n \in {-1} \cup (0..MaxN)
    /\ parent = DSUParentInit(n)
    /\ rank = DSURankInit(n)
    /\ hist = Call("create", n, -1, -1, FALSE, <<>>, <<>>, -1, -1)
    /\ NoGraph
    /\ EngineIdle("dsu")

NextDSU ==
    \/ \E i \in 0..(n - 1) : Find(i)
    \/ \E x \in 0..(n - 1), y \in 0..(n - 1) : Union(x, y)

\* ---------------------------------------------------------------- sorting
\* The weight of an edge <<u, v, weight>>: item[2] in the scripts.
Weight(e) == e[3]

\* The comparator with its operands exchanged.
comparatorReversed(a, b) == Weight(b) - Weight(a)

\* index.py's comparator(a, b).
comparator(a, b) == Weight(a) - Weight(b)

\* An insertion that orders by decreasing key.
RECURSIVE InsertByKeyDescending(_, _)
InsertByKeyDescending(s, e) ==
    IF s = <<>> THEN <<e>>
    ELSE IF Weight(e) > Weight(s[Len(s)])
         THEN Append(InsertByKeyDescending(SubSeq(s, 1, Len(s) - 1), e), s[Len(s)])
         ELSE Append(s, e)

\* e put into the sorted sequence s behind every element it is not less than,
\* less meaning a smaller key: the place a stable sort by key gives it.
RECURSIVE InsertByKey(_, _)
InsertByKey(s, e) ==
    IF s = <<>> THEN <<e>>
    ELSE IF Weight(e) < Weight(s[Len(s)])
         THEN Append(InsertByKey(SubSeq(s, 1, Len(s) - 1), e), s[Len(s)])
         ELSE Append(s, e)

\* The same with less meaning comparator(e, x) < 0, as cmp_to_key defines it.
RECURSIVE InsertByComparator(_, _)
InsertByComparator(s, e) ==
    IF s = <<>> THEN <<e>>
    ELSE IF comparator(e, s[Len(s)]) < 0
         THEN Append(InsertByComparator(SubSeq(s, 1, Len(s) - 1), e), s[Len(s)])
         ELSE Append(s, e)

\* The edge list taken in the order given, without sorting.
Unsorted(el) == el

\* sorted(edge_list, key=lambda item: item[2]): a stable sort, a new list.
RECURSIVE SortedByKey(_)
SortedByKey(el) ==
    IF el = <<>> THEN <<>>
    ELSE InsertByKey(SortedByKey(SubSeq(el, 1, Len(el) - 1)), el[Len(el)])

\* sorted(edge_list, key=cmp_to_key(comparator)): a stable sort, a new list.
RECURSIVE SortedByComparator(_)
SortedByComparator(el) ==
    IF el = <<>> THEN <<>>
    ELSE InsertByComparator(SortedByComparator(SubSeq(el, 1, Len(el) - 1)), el[Len(el)])

\* ------------------------------------------------------------------- heap
\* Python's order on the tuples (weight, u, v).
TupleLess(a, b) ==
    \/ a[1] < b[1]
    \/ a[1] = b[1] /\ a[2] < b[2]
    \/ a[1] = b[1] /\ a[2] = b[2] /\ a[3] < b[3]

\* heapq.heappush; the heap is kept as the sequence of its entries.
HeapPush(h, e) == Append(h, e)

\* The place of the entry pushed first, as a plain queue would pop.
HeapFirstIndex(h) == 1

\* The place of the entry heapq.heappop returns: a least one.
HeapMinIndex(h) ==
    CHOOSE i \in 1..Len(h) :
        /\ \A j \in 1..Len(h) : ~TupleLess(h[j], h[i])
        /\ \A j \in 1..(i - 1) : h[j] # h[i]

\* The heap after heapq.heappop.
HeapRemove(h, i) == SubSeq(h, 1, i - 1) \o SubSeq(h, i + 1, Len(h))

\* adj_list.get(v, []).
AdjGet(adj, v) == IF v \in DOMAIN adj THEN adj[v] ELSE <<>>

\* The pushes of "for neighbor, weight in adj_list.get(src, []): heappush(...)",
\* from entry k of the list on, skipping the neighbors in skip.
RECURSIVE PushNeighbors(_, _, _, _, _)
PushNeighbors(h, nbrs, src, skip, k) ==
    IF k > Len(nbrs) THEN h
    ELSE PushNeighbors(
            IF nbrs[k][1] \in skip THEN h
            ELSE HeapPush(h, <<nbrs[k][2], src, nbrs[k][1]>>),
            nbrs, src, skip, k + 1)

\* ------------------------------------------------------------ the caller
\* main(): adj_list = {i: [] for i in range(num_vertices)}, then both
\* directions of every edge appended in edge_list order.
RECURSIVE BuildAdj(_, _)
BuildAdj(V, el) ==
    IF el = <<>> THEN [i \in 0..(V - 1) |-> <<>>]
    ELSE LET a == BuildAdj(V, SubSeq(el, 1, Len(el) - 1))
             e == el[Len(el)]
             b == [a EXCEPT ![e[1]] = Append(@, <<e[2], e[3]>>)]
         IN  [b EXCEPT ![e[2]] = Append(@, <<e[1], e[3]>>)]

\* ------------------------------------------------- kruskals_mst (final.py)
\* sorted(edge_list) done in place on the caller's list.
KruskalSortInPlace ==
    /\ pc = "k_start"
    /\ sorted_edge_list' = SortedByKey(edge_list)
    /\ edge_list' = SortedByKey(edge_list)
    /\ n' = num_vertices
    /\ parent' = DSUParentInit(num_vertices)
    /\ rank' = DSURankInit(num_vertices)
    /\ mst_cost' = 0
    /\ mst_edges' = <<>>
    /\ pos' = 1
    /\ pc' = "k_loop"
    /\ UNCHANGED <<hist, num_vertices, adj_list, mst_edge_count, selected, warned,
                   min_heap, visited, popped, kruskal_result, index_result, prim_result>>

\* Lines 47-50: the sorted copy, the DSU, mst_cost and mst_edges.
KruskalSort ==
    /\ pc = "k_start"
    /\ sorted_edge_list' = SortedByKey(edge_list)
    /\ n' = num_vertices
    /\ parent' = DSUParentInit(num_vertices)
    /\ rank' = DSURankInit(num_vertices)
    /\ mst_cost' = 0
    /\ mst_edges' = <<>>
    /\ pos' = 1
    /\ pc' = "k_loop"
    /\ UNCHANGED <<hist, graphVars, mst_edge_count, selected, warned,
                   min_heap, visited, popped, kruskal_result, index_result, prim_result>>

\* Lines 51-56: one iteration of the for loop.
KruskalStep ==
    /\ pc = "k_loop"
    /\ pos <= Len(sorted_edge_list)
    /\ LET e == sorted_edge_list[pos]
           u == union(parent, rank, e[1], e[2])
       IN  /\ parent' = u.parent
           /\ rank' = u.rank
           /\ IF u.ret
              THEN /\ mst_cost' = mst_cost + e[3]
                   /\ mst_edges' = Append(mst_edges, e)
                   /\ IF Len(mst_edges') = num_vertices - 1
                      THEN pc' = "k_return" /\ pos' = pos
                      ELSE pc' = pc /\ pos' = pos + 1
              ELSE /\ pos' = pos + 1
                   /\ UNCHANGED <<mst_cost, mst_edges, pc>>
    /\ UNCHANGED <<n, hist, graphVars, sorted_edge_list, mst_edge_count, selected, warned,
                   min_heap, visited, popped, kruskal_result, index_result, prim_result>>

\* Line 57, after the loop ran out or broke.
KruskalReturn ==
    /\ \/ pc = "k_loop" /\ pos > Len(sorted_edge_list)
       \/ pc = "k_return"
    /\ kruskal_result' = <<mst_cost, mst_edges>>
    /\ pc' = "i_start"
    /\ UNCHANGED <<dsuVars, graphVars, sorted_edge_list, pos, mst_cost, mst_edges,
                   mst_edge_count, selected, warned, min_heap, visited, popped,
                   index_result, prim_result>>

\* ------------------------------------------------- kruskals_mst (index.py)
\* Lines 48-55: the sorted copy, the DSU, mst_cost and mst_edge_count.
IndexSort ==
    /\ pc = "i_start"
    /\ sorted_edge_list' = SortedByComparator(edge_list)
    /\ n' = num_vertices
    /\ parent' = DSUParentInit(num_vertices)
    /\ rank' = DSURankInit(num_vertices)
    /\ mst_cost' = 0
    /\ mst_edge_count' = 0
    /\ selected' = <<>>
    /\ pos' = 1
    /\ pc' = "i_loop"
    /\ UNCHANGED <<hist, graphVars, mst_edges, warned, min_heap, visited, popped,
                   kruskal_result, index_result, prim_result>>

\* Lines 57-65: one iteration of the for loop.
IndexStep ==
    /\ pc = "i_loop"
    /\ pos <= Len(sorted_edge_list)
    /\ LET e == sorted_edge_list[pos]
           f1 == find(parent, e[1])
           f2 == find(f1.parent, e[2])
           u == union(f2.parent, rank, e[1], e[2])
       IN  IF f1.root # f2.root
           THEN /\ parent' = u.parent
                /\ rank' = u.rank
                /\ mst_cost' = mst_cost + e[3]
                /\ mst_edge_count' = mst_edge_count + 1
                /\ selected' = Append(selected, e)
                /\ IF mst_edge_count' = num_vertices - 1
                   THEN pc' = "i_return" /\ pos' = pos
                   ELSE pc' = pc /\ pos' = pos + 1
           ELSE /\ parent' = f2.parent
                /\ pos' = pos + 1
                /\ UNCHANGED <<rank, mst_cost, mst_edge_count, selected, pc>>
    /\ UNCHANGED <<n, hist, graphVars, sorted_edge_list, mst_edges, warned,
                   min_heap, visited, popped, kruskal_result, index_result, prim_result>>

\* Lines 68-72: the warning and the returned cost.
IndexReturn ==
    /\ \/ pc = "i_loop" /\ pos > Len(sorted_edge_list)
       \/ pc = "i_return"
    /\ warned' = (mst_edge_count < num_vertices - 1 /\ num_vertices > 0)
    /\ index_result' = mst_cost
    /\ pc' = "p_start"
    /\ UNCHANGED <<dsuVars, graphVars, sorted_edge_list, pos, mst_cost, mst_edges,
                   mst_edge_count, selected, min_heap, visited, popped,
                   kruskal_result, prim_result>>

\* ---------------------------------------------------- prims_mst (final.py)
\* Lines 70-89: the early return, the locals and the seeding of the heap.
PrimStart ==
    /\ pc = "p_start"
    /\ IF num_vertices = 0
       THEN /\ prim_result' = <<0, <<>>>>
            /\ pc' = "done"
            /\ UNCHANGED <<min_heap, visited, mst_cost, mst_edges>>
       ELSE /\ min_heap' = PushNeighbors(<<>>, AdjGet(adj_list, 0), 0, {}, 1)
            /\ visited' = {0}
            /\ mst_cost' = 0
            /\ mst_edges' = <<>>
            /\ pc' = "p_loop"
            /\ UNCHANGED prim_result
    /\ UNCHANGED <<dsuVars, graphVars, sorted_edge_list, pos, mst_edge_count, selected,
                   warned, popped, kruskal_result, index_result>>

\* An iteration that takes the popped edge without the "v not in visited" test.
PrimStepNoTest ==
    /\ pc = "p_loop"
    /\ min_heap # <<>>
    /\ Cardinality(visited) < num_vertices
    /\ LET i == HeapMinIndex(min_heap)
           top == min_heap[i]
           weight == top[1]
           u == top[2]
           v == top[3]
           h == HeapRemove(min_heap, i)
       IN  /\ popped' = top
           /\ visited' = visited \cup {v}
           /\ mst_cost' = mst_cost + weight
           /\ mst_edges' = Append(mst_edges, <<u, v, weight>>)
           /\ min_heap' = PushNeighbors(h, AdjGet(adj_list, v), v, visited', 1)
    /\ UNCHANGED <<dsuVars, graphVars, pc, sorted_edge_list, pos, mst_edge_count, selected,
                   warned, kruskal_result, index_result, prim_result>>

\* Lines 92-104: one iteration of the while loop.
PrimStep ==
    /\ pc = "p_loop"
    /\ min_heap # <<>>
    /\ Cardinality(visited) < num_vertices
    /\ LET i == HeapMinIndex(min_heap)
           top == min_heap[i]
           weight == top[1]
           u == top[2]
           v == top[3]
           h == HeapRemove(min_heap, i)
       IN  /\ popped' = top
           /\ IF v \notin visited
              THEN /\ visited' = visited \cup {v}
                   /\ mst_cost' = mst_cost + weight
                   /\ mst_edges' = Append(mst_edges, <<u, v, weight>>)
                   /\ min_heap' = PushNeighbors(h, AdjGet(adj_list, v), v, visited', 1)
              ELSE /\ min_heap' = h
                   /\ UNCHANGED <<visited, mst_cost, mst_edges>>
    /\ UNCHANGED <<dsuVars, graphVars, pc, sorted_edge_list, pos, mst_edge_count, selected,
                   warned, kruskal_result, index_result, prim_result>>

\* Line 106, once the while condition fails.
PrimReturn ==
    /\ pc = "p_loop"
    /\ ~(min_heap # <<>> /\ Cardinality(visited) < num_vertices)
    /\ prim_result' = <<mst_cost, mst_edges>>
    /\ pc' = "done"
    /\ UNCHANGED <<dsuVars, graphVars, sorted_edge_list, pos, mst_cost, mst_edges,
                   mst_edge_count, selected, warned, min_heap, visited, popped,
                   kruskal_result, index_result>>

\* ------------------------------------------------------------ the inputs
\* The edges <<u, v, weight>> over V vertices with weights 0..MaxW.
Edges(V) == (0..(V - 1)) \X (0..(V - 1)) \X (0..MaxW)

\* The edge lists of at most MaxE edges.
EdgeLists(V) == UNION {[1..k -> Edges(V)] : k \in 0..MaxE}

\* The scenario of four vertices and five edges with MST cost 6.
ScenarioEdges == << <<0, 1, 1>>, <<1, 2, 2>>, <<2, 3, 3>>, <<0, 3, 10>>, <<0, 2, 4>> >>

\* Edges inside the components {0, 1} and {2, 3} of a graph of four vertices.
ComponentEdges == {<<0, 1>>, <<1, 0>>, <<2, 3>>, <<3, 2>>} \X (0..MaxW)
TwoComponentLists ==
    {el \in UNION {[1..k -> ComponentEdges] : k \in 2..MaxCE} :
        /\ \E i \in DOMAIN el : el[i][1][1] \in {0, 1}
        /\ \E i \in DOMAIN el : el[i][1][1] \in {2, 3}}
Flat(el) == [i \in DOMAIN el |-> <<el[i][1][1], el[i][1][2], el[i][2]>>]

\* The scripts about to call the engines on a parsed, zero-indexed graph.
InitMST ==
    /\ \/ /\ num_vertices \in 0..MaxV
          /\ edge_list \in EdgeLists(num_vertices)
       \/ /\ num_vertices = 4
          /\ edge_list = ScenarioEdges
       \/ /\ num_vertices = 4
          /\ edge_list \in {Flat(el) : el \in TwoComponentLists}
    /\ adj_list = BuildAdj(num_vertices, edge_list)
    /\ n = 0
    /\ parent = <<>>
    /\ rank = <<>>
    /\ hist = Call("none", -1, -1, -1, FALSE, <<>>, <<>>, -1, -1)
    /\ EngineIdle("k_start")

NextMST ==
    \/ KruskalSort
    \/ KruskalStep
    \/ KruskalReturn
    \/ IndexSort
    \/ IndexStep
    \/ IndexReturn
    \/ PrimStart
    \/ PrimStep
    \/ PrimReturn

SpecMST == InitMST /\ [][NextMST]_vars

\* ------------------------------------------------- properties of the DSU
\* The root above i, read off the parent pointers without rewriting them.
RECURSIVE RootOf(_, _)
RootOf(p, i) == IF p[i] = i THEN i ELSE RootOf(p, p[i])

\* The elements in the same set as i.
SetOf(p, i) == {j \in DOMAIN p : RootOf(p, j) = RootOf(p, i)}

\* The k-th ancestor of i.
RECURSIVE Ancestor(_, _, _)
Ancestor(p, i, k) == IF k = 0 THEN i ELSE Ancestor(p, p[i], k - 1)

\* Every chain of parent pointers stays inside the array and ends in a self-loop.
NoCycle(p) ==
    /\ \A i \in DOMAIN p : p[i] \in DOMAIN p
    /\ \A i \in DOMAIN p :
          \E k \in 0..Cardinality(DOMAIN p) : LET a == Ancestor(p, i, k) IN p[a] = a

UnionOfDifferentSets ==
    /\ hist.op = "union"
    /\ RootOf(hist.parent0, hist.x) # RootOf(hist.parent0, hist.y)

UnionOfSameSet ==
    /\ hist.op = "union"
    /\ RootOf(hist.parent0, hist.x) = RootOf(hist.parent0, hist.y)

\* C3: a union(a, b) of two elements in different sets returns True, leaves
\* find(a) = find(b), merges exactly the two sets, and leaves every element
\* outside the two sets in the set it was in.
C3_UnionMerges ==
    UnionOfDifferentSets =>
        LET A == SetOf(hist.parent0, hist.x)
            B == SetOf(hist.parent0, hist.y)
        IN  /\ hist.merged = TRUE
            /\ RootOf(parent, hist.x) = RootOf(parent, hist.y)
            /\ find(parent, hist.x).root = find(parent, hist.y).root
            /\ SetOf(parent, hist.x) = A \cup B
            /\ \A e \in DOMAIN parent \ (A \cup B) :
                  SetOf(parent, e) = SetOf(hist.parent0, e)

\* A union merged a set of two or more elements with another one while a
\* third set stood by.
C3_Witness ==
    /\ UnionOfDifferentSets
    /\ hist.merged = TRUE
    /\ Cardinality(SetOf(hist.parent0, hist.x)) >= 2
    /\ \E e \in DOMAIN parent : RootOf(parent, e) # RootOf(parent, hist.x)

\* C4 as stated: a union of two elements of one set returns False and leaves
\* parent and rank exactly as they were.
C4_AsStated ==
    UnionOfSameSet =>
        /\ hist.merged = FALSE
        /\ parent = hist.parent0
        /\ rank = hist.rank0

\* C4 amended: a union of two elements of one set returns False, leaves rank
\* as it was and every element in the set and under the root it had; parent
\* changes only where path compression points an element at its root, and
\* not at all when x and y were roots or children of a root.
C4_SameSetUnion ==
    UnionOfSameSet =>
        /\ hist.merged = FALSE
        /\ rank = hist.rank0
        /\ \A i \in DOMAIN parent : RootOf(parent, i) = RootOf(hist.parent0, i)
        /\ \A i \in DOMAIN parent :
              parent[i] = hist.parent0[i] \/ parent[i] = RootOf(hist.parent0, i)
        /\ (\A i \in {hist.x, hist.y} :
              hist.parent0[i] = RootOf(hist.parent0, i)) => parent = hist.parent0

\* A union of two elements of one set rewrote a parent pointer.
C4_Witness ==
    /\ UnionOfSameSet
    /\ hist.merged = FALSE
    /\ parent # hist.parent0

\* C6 as stated: DSU(n) with n >= 0 gives n singleton roots of equal rank,
\* and DSU(n) with n < 0 fails with InvalidArgument.
C6_AsStated ==
    hist.op = "create" =>
        /\ n >= 0 =>
              /\ DOMAIN parent = 0..(n - 1)
              /\ DOMAIN rank = 0..(n - 1)
              /\ \A i \in 0..(n - 1) : parent[i] = i /\ rank[i] = 1
        /\ n < 0 => hist.raised = "InvalidArgument"

FindRepeated ==
    /\ hist.op = "find"
    /\ hist.prev_x = hist.x

\* C8: the parent pointers never hold a cycle other than a root's self-loop,
\* and a find(i) right after a find(i) returns the same root and changes
\* neither parent nor rank.
C8_FindTerminatesIdempotent ==
    /\ NoCycle(parent)
    /\ FindRepeated =>
          /\ hist.root = hist.prev_root
          /\ hist.root = RootOf(parent, hist.x)
          /\ parent = hist.parent0
          /\ rank = hist.rank0

\* find(i) was called twice in a row on a non-root while another element
\* still sits two links below its root.
C8_Witness ==
    /\ FindRepeated
    /\ parent[hist.x] # hist.x
    /\ \E j \in DOMAIN parent : parent[parent[j]] # parent[j]

\* --------------------------------------------- properties of the engines
\* The sum of the weights of a sequence of edges.
RECURSIVE CostOf(_)
CostOf(t) == IF t = <<>> THEN 0 ELSE CostOf(SubSeq(t, 1, Len(t) - 1)) + t[Len(t)][3]

\* The vertices reached from those in S over the edges of es in at most k hops.
RECURSIVE Reach(_, _, _)
Reach(S, es, k) ==
    IF k = 0 THEN S
    ELSE Reach(S \cup {es[i][2] : i \in {j \in DOMAIN es : es[j][1] \in S}}
                 \cup {es[i][1] : i \in {j \in DOMAIN es : es[j][2] \in S}},
               es, k - 1)

\* The undirected graph on 0..V-1 with the edges of es is connected.
Connected(V, es) == V >= 1 /\ Reach({0}, es, V) = 0..(V - 1)

\* The edges of el at the places in S, in list order.
RECURSIVE Pick(_, _, _)
Pick(el, S, k) ==
    IF k > Len(el) THEN <<>>
    ELSE IF k \in S THEN <<el[k]>> \o Pick(el, S, k + 1) ELSE Pick(el, S, k + 1)

\* The total weights of all the spanning trees of the graph.
SpanningCosts(V, el) ==
    {CostOf(Pick(el, S, 1)) :
        S \in {T \in SUBSET DOMAIN el :
                 Cardinality(T) = V - 1 /\ Connected(V, Pick(el, T, 1))}}

MinOf(S) == CHOOSE m \in S : \A k \in S : m <= k

\* t is a spanning tree of the graph: V-1 edges of the input, in either
\* direction, that connect all V vertices (and so hold no cycle).
IsSpanningTree(V, t, el) ==
    /\ Len(t) = V - 1
    /\ \A k \in DOMAIN t :
          \E i \in DOMAIN el :
              /\ el[i][3] = t[k][3]
              /\ \/ el[i][1] = t[k][1] /\ el[i][2] = t[k][2]
                 \/ el[i][1] = t[k][2] /\ el[i][2] = t[k][1]
    /\ Connected(V, t)

RunsDone == pc = "done"

ConnectedInput == num_vertices >= 1 /\ Connected(num_vertices, edge_list)

\* C1: on a connected graph kruskals_mst and prims_mst return the same total
\* cost and each returns exactly V-1 edges.
C1_SameCostAndSize ==
    (RunsDone /\ ConnectedInput) =>
        /\ kruskal_result[1] = prim_result[1]
        /\ Len(kruskal_result[2]) = num_vertices - 1
        /\ Len(prim_result[2]) = num_vertices - 1

\* Both engines finished on a connected graph that holds a cycle and where
\* they chose trees that differ as edge lists.
C1_Witness ==
    /\ RunsDone
    /\ ConnectedInput
    /\ num_vertices >= 3
    /\ Len(edge_list) >= num_vertices
    /\ Cardinality(SpanningCosts(num_vertices, edge_list)) >= 2

\* C2: on a connected graph each engine returns a spanning tree of the input
\* whose total cost is the least over all spanning trees; the five-edge
\* scenario costs 6.
C2_MinimumSpanningTree ==
    (RunsDone /\ ConnectedInput) =>
        /\ \A r \in {kruskal_result, prim_result} :
              /\ IsSpanningTree(num_vertices, r[2], edge_list)
              /\ r[1] = CostOf(r[2])
              /\ r[1] = MinOf(SpanningCosts(num_vertices, edge_list))
        /\ edge_list = ScenarioEdges =>
              /\ kruskal_result[1] = 6
              /\ prim_result[1] = 6
              /\ kruskal_result[2] = << <<0, 1, 1>>, <<1, 2, 2>>, <<2, 3, 3>> >>

\* Both engines finished on the five-edge scenario, which has spanning trees
\* of several costs, and returned cost 6.
C2_Witness ==
    /\ RunsDone
    /\ ConnectedInput
    /\ edge_list = ScenarioEdges
    /\ Cardinality(SpanningCosts(num_vertices, edge_list)) >= 2
    /\ kruskal_result[1] = 6
    /\ prim_result[1] = 6

\* Four vertices, every edge joining 0 and 1 or joining 2 and 3, at least one
\* of each.
TwoComponents ==
    /\ num_vertices = 4
    /\ \A i \in DOMAIN edge_list :
          {edge_list[i][1], edge_list[i][2]} \in {{0, 1}, {2, 3}}
    /\ \E i \in DOMAIN edge_list : edge_list[i][1] \in {0, 1}
    /\ \E i \in DOMAIN edge_list : edge_list[i][1] \in {2, 3}

\* The least weight of an edge with an end in C.
MinEdge(C) == MinOf({edge_list[i][3] : i \in {j \in DOMAIN edge_list : edge_list[j][1] \in C}})

C7_InputsUnchanged ==
    [][/\ edge_list' = edge_list
       /\ adj_list' = adj_list
       /\ num_vertices' = num_vertices]_vars

\* The engines finished on an edge list that was not in weight order, so the
\* sorted copy differs from it.
C7_Witness ==
    /\ RunsDone
    /\ sorted_edge_list # edge_list
    /\ adj_list = BuildAdj(num_vertices, edge_list)
    /\ Len(prim_result[2]) >= 1

\* C9: index.py's kruskals_mst returns the cost final.py's kruskals_mst
\* returns and selects the same edges in the same order, the two sorts giving
\* the same list.
C9_KruskalVariantsAgree ==
    (RunsDone /\ num_vertices >= 1) =>
        /\ index_result = kruskal_result[1]
        /\ selected = kruskal_result[2]
        /\ SortedByComparator(edge_list) = SortedByKey(edge_list)

\* Both variants finished on an unsorted edge list with equal weights in it,
\* having selected an edge and passed over another.
C9_Witness ==
    /\ RunsDone
    /\ num_vertices >= 2
    /\ sorted_edge_list # edge_list
    /\ \E i, j \in DOMAIN edge_list : i # j /\ edge_list[i][3] = edge_list[j][3]
    /\ Len(selected) >= 1
    /\ Len(selected) < Len(edge_list)

\* The targets of the first k selected edges together with the start vertex.
VisitedBefore(k) == {0} \cup {mst_edges[j][2] : j \in 1..(k - 1)}

PrimLoopInvariant ==
    pc = "p_loop" =>
        /\ Len(mst_edges) = Cardinality(visited) - 1
        /\ visited = VisitedBefore(Len(mst_edges) + 1)
        /\ \A k \in DOMAIN mst_edges :
              /\ mst_edges[k][1] \in VisitedBefore(k)
              /\ mst_edges[k][2] \notin VisitedBefore(k)
        /\ mst_cost = CostOf(mst_edges)
        /\ \A i \in DOMAIN min_heap : min_heap[i][2] \in visited

PrimStaleStep ==
    (pc = "p_loop" /\ pc' = "p_loop" /\ min_heap' # min_heap /\ popped'[3] \in visited) =>
        /\ visited' = visited
        /\ mst_cost' = mst_cost
        /\ mst_edges' = mst_edges

PrimFreshStep ==
    (pc = "p_loop" /\ mst_edges' # mst_edges) =>
        /\ mst_edges' = Append(mst_edges, <<popped'[2], popped'[3], popped'[1]>>)
        /\ popped'[2] \in visited
        /\ popped'[3] \notin visited
        /\ visited' = visited \cup {popped'[3]}

\* C10: at every iteration of the loop of prims_mst the selected edges form a
\* tree on the visited set (one edge fewer than visited vertices, each edge
\* from a vertex visited before it to one not), mst_cost is their weight,
\* every heap entry starts at a visited vertex, and popping an entry whose
\* target is visited changes none of visited, mst_cost and mst_edges.
C10_PrimLoop ==
    /\ []PrimLoopInvariant
    /\ [][PrimStaleStep /\ PrimFreshStep]_vars

\* The loop has selected an edge and then popped an entry whose target was
\* visited already.
C10_Witness ==
    /\ pc = "p_loop"
    /\ Len(mst_edges) >= 1
    /\ popped # <<>>
    /\ mst_edges[Len(mst_edges)] # <<popped[2], popped[3], popped[1]>>
    /\ popped[3] \in visited

SpecDSU == InitDSU /\ [][NextDSU]_vars
====
